---- MODULE Spec2Model ----
(***************************************************************************)
(* PDF Genie (src/main.py): the POST /upload pipeline                      *)
(*     validate type -> validate size -> extract -> sufficiency check      *)
(*     -> generate -> respond                                              *)
(* together with the two components it calls, extract_text_from_pdf and    *)
(* generate_meme_explanation.                                              *)
(*                                                                         *)
(* Strings that can be long (page text, extracted text, prompt excerpt)    *)
(* are kept run-length encoded: a Text is a sequence of runs               *)
(* [ch |-> c, n |-> k], k > 0, no two adjacent runs with the same ch, so   *)
(* that two Texts are equal exactly when the strings are equal and the     *)
(* program's real thresholds (50, 12000, 10 MiB) are used unscaled.        *)
(*                                                                         *)
(* An optional value (Python None or a value) is <<>> or <<v>>.            *)
(*                                                                         *)
(* The uploaded bytes are described by what PyPDF2 makes of them: whether  *)
(* PdfReader opens them, and for every page either its text or a fault of  *)
(* page.extract_text(); plus their length in bytes.                        *)
(***************************************************************************)
EXTENDS Integers, Sequences, FiniteSets, TLC

VARIABLES
    client,        \* module-level Gemini client handle (main.py:37)
    pc,            \* pc[r]: position of request r in upload_pdf
    upload,        \* upload[r]: the UploadFile of request r, <<>> before arrival
    file_content,  \* local of upload_pdf (main.py:149)
    pdf_text,      \* local of upload_pdf (main.py:158)
    explanation,   \* local of upload_pdf (main.py:171)
    resp,          \* resp[r]: the HTTP response or error of request r
    steps,         \* steps[r]: the pipeline steps request r has run, in order
    prompt,        \* prompt[r]: the user prompt request r sent to the client
    genReturned,   \* genReturned[r]: what the client call of request r gave back
    extractLog,    \* direct calls of the extractor: the bytes and the result
    frame          \* locals of the direct extractor call in progress, or <<>>

vars == <<client, pc, upload, file_content, pdf_text, explanation, resp,
          steps, prompt, genReturned, extractLog, frame>>

-----------------------------------------------------------------------------
(* Bounds *)

NumReqs == 2
MaxCalls == 3

Reqs == 1..NumReqs

-----------------------------------------------------------------------------
(* Program constants *)

MaxUploadBytes == 10 * 1024 * 1024
MinTextLen == 50
PromptTextLimit == 12000
PdfMediaType == "application/pdf"

-----------------------------------------------------------------------------
(* Run-length encoded strings *)

Run(c, k) == [ch |-> c, n |-> k]
NL == <<Run("\n", 1)>>
Whitespace == {" ", "\n", "\t"}

RECURSIVE TLen(_)
TLen(t) == IF t = <<>> THEN 0 ELSE Head(t).n + TLen(Tail(t))

\* a + b
TCat(a, b) ==
    IF a = <<>> THEN b
    ELSE IF b = <<>> THEN a
    ELSE IF a[Len(a)].ch = Head(b).ch
         THEN SubSeq(a, 1, Len(a) - 1)
              \o <<Run(Head(b).ch, a[Len(a)].n + Head(b).n)>>
              \o Tail(b)
         ELSE a \o b

RECURSIVE LStrip(_)
LStrip(t) ==
    IF t = <<>> THEN <<>>
    ELSE IF Head(t).ch \in Whitespace THEN LStrip(Tail(t)) ELSE t

RECURSIVE RStrip(_)
RStrip(t) ==
    IF t = <<>> THEN <<>>
    ELSE IF t[Len(t)].ch \in Whitespace
         THEN RStrip(SubSeq(t, 1, Len(t) - 1)) ELSE t

\* str.strip()
TStrip(t) == RStrip(LStrip(t))

\* t[:k], k >= 0
RECURSIVE TSlice(_, _)
TSlice(t, k) ==
    IF t = <<>> \/ k <= 0 THEN <<>>
    ELSE IF Head(t).n <= k
         THEN <<Head(t)>> \o TSlice(Tail(t), k - Head(t).n)
         ELSE <<Run(Head(t).ch, k)>>

-----------------------------------------------------------------------------
(* Inputs *)

PageText(t) == [ok |-> TRUE, text |-> t]
PageFault == [ok |-> FALSE, text |-> <<>>]
Doc(v, p, s) == [valid |-> v, pages |-> p, size |-> s]

DocNotPdf == Doc(FALSE, <<>>, 17)
DocFaultPage2 == Doc(TRUE, <<PageText(<<Run("a", 60)>>), PageFault>>, 2048)
DocBlank == Doc(TRUE, <<PageText(<<Run(" ", 3)>>)>>, 900)
Doc49 == Doc(TRUE, <<PageText(<<Run(" ", 2), Run("a", 24)>>),
                     PageText(<<Run("b", 24), Run(" ", 2)>>)>>, 1500)
Doc50 == Doc(TRUE, <<PageText(<<Run("a", MinTextLen)>>)>>, MaxUploadBytes)
Doc12000 == Doc(TRUE, <<PageText(<<Run("a", PromptTextLimit)>>)>>, 40000)
Doc12001 == Doc(TRUE, <<PageText(<<Run("a", PromptTextLimit - 10)>>),
                        PageText(<<Run("b", 10)>>)>>, 40001)
DocTooLarge == Doc(TRUE, <<PageText(<<Run("a", 60)>>)>>, MaxUploadBytes + 1)

Documents == {DocNotPdf, DocFaultPage2, DocBlank, Doc49, Doc50, Doc12000,
              Doc12001, DocTooLarge}

ContentTypes == {PdfMediaType, "application/PDF"}
Filenames == {"a.pdf", "b.pdf"}

Uploads == [content_type : ContentTypes, filename : Filenames, body : Documents]

\* What client.models.generate_content can do: return a response whose .text
\* is a non-empty string, an empty string or None, or throw.
Payload(k, t) == [kind |-> k, text |-> t]
ClientOutcomes == {Payload("text", "LOL"), Payload("text", "ROFL"),
                   Payload("text", ""), Payload("none", ""),
                   Payload("throw", "")}

-----------------------------------------------------------------------------
(* Responses *)

\* raise HTTPException(status_code=s, detail=d)
HttpError(s, d) == [kind |-> "error", status |-> s, detail |-> d]

\* JSONResponse(status_code=200, content={"success": False, "message": ...})
InsufficientResponse ==
    [kind |-> "json", status |-> 200, success |-> FALSE,
     message |-> "this PDF seems to be mostly images or has very little text"]

SuccessResponseTruncLen(expl, text, fname) ==
    [kind |-> "json", status |-> 200, success |-> TRUE, explanation |-> expl,
     original_length |-> TLen(TSlice(text, PromptTextLimit)),
     filename |-> fname]

\* JSONResponse(status_code=200, content={"success": True, ...})
SuccessResponse(expl, text, fname) ==
    [kind |-> "json", status |-> 200, success |-> TRUE, explanation |-> expl,
     original_length |-> TLen(text), filename |-> fname]

-----------------------------------------------------------------------------
(* Outcome of a call: a returned value or a raised HTTPException *)

Return(v) == [raised |-> FALSE, status |-> 0, detail |-> "", value |-> <<v>>]
Raise(s, d) == [raised |-> TRUE, status |-> s, detail |-> d, value |-> <<>>]

-----------------------------------------------------------------------------
(* extract_text_from_pdf *)

ExtractFaultKeepsText(text_content) == Return(TStrip(text_content))

\* except Exception as e: raise HTTPException(status_code=400, ...)
ExtractFault(text_content) == Raise(400, "Error extracting text from PDF")

\* for page_num in range(len(pdf_reader.pages)):
\*     text_content += page.extract_text() + "\n"
\* return text_content.strip()
\* text_content += page.extract_text() + "\n"
AddPage(text_content, page) == TCat(text_content, TCat(page.text, NL))

RECURSIVE ExtractPages(_, _, _)
ExtractPages(pages, page_num, text_content) ==
    IF page_num > Len(pages) THEN Return(TStrip(text_content))
    ELSE IF ~pages[page_num].ok THEN ExtractFault(text_content)
    ELSE ExtractPages(pages, page_num + 1,
                      AddPage(text_content, pages[page_num]))

extract_text_from_pdf(pdf_file) ==
    IF ~pdf_file.valid THEN ExtractFault(<<>>)
    ELSE ExtractPages(pdf_file.pages, 1, <<>>)

-----------------------------------------------------------------------------
(* generate_meme_explanation *)

user_prompt_untruncated(text) ==
    [instruction |-> "PDF CONTENT:", content |-> text]

\* f"...PDF CONTENT:\n{pdf_text[:12000]}"
user_prompt(text) ==
    [instruction |-> "PDF CONTENT:", content |-> TSlice(text, PromptTextLimit)]

ResponseNotNone(response) == response.kind = "text"

\* if response.text:
ResponseHasText(response) == response.kind = "text" /\ response.text # ""

\* What generate_meme_explanation makes of the client call's outcome.
GenerateOutcome(response) ==
    IF response.kind = "throw" THEN Raise(500, "Error generating explanation")
    ELSE IF ResponseHasText(response) THEN Return(response.text)
    ELSE Raise(500, "Error generating explanation")

-----------------------------------------------------------------------------
(* upload_pdf                                                              *)
(*                                                                         *)
(* One action per pipeline step of one request.  The handler is a          *)
(* coroutine whose only suspension point is `await file.read()`; the       *)
(* steps of different requests are interleaved here at every step          *)
(* boundary, which includes every schedule the event loop can produce.     *)
(* The outer `except Exception` (main.py:186-191) has no action: the       *)
(* extractor and the generator turn every fault of theirs into an          *)
(* HTTPException, which `except HTTPException: raise` passes on, and the   *)
(* remaining statements of the try block raise nothing.                    *)

IsPdfTypeAnyCase(ct) == ct \in {"application/pdf", "application/PDF"}

\* file.content_type == "application/pdf"
IsPdfType(ct) == ct = PdfMediaType

TooLargeInclusive(n) == n >= MaxUploadBytes

\* len(file_content) > 10 * 1024 * 1024
TooLarge(n) == n > MaxUploadBytes

InsufficientInclusive(text) == text = <<>> \/ TLen(TStrip(text)) <= MinTextLen

\* not pdf_text or len(pdf_text.strip()) < 50
Insufficient(text) == text = <<>> \/ TLen(TStrip(text)) < MinTextLen

StepOrder == <<"validate_type", "validate_size", "extract", "check",
               "generate", "respond">>

Ran(r, step) == steps' = [steps EXCEPT ![r] = Append(@, step)]
Goto(r, label) == pc' = [pc EXCEPT ![r] = label]
Finish(r, response) ==
    /\ resp' = [resp EXCEPT ![r] = <<response>>]
    /\ Goto(r, "done")

Init ==
    /\ client = [api_key |-> "GEMINI_API_KEY"]
    /\ pc = [r \in Reqs |-> "idle"]
    /\ upload = [r \in Reqs |-> <<>>]
    /\ file_content = [r \in Reqs |-> <<>>]
    /\ pdf_text = [r \in Reqs |-> <<>>]
    /\ explanation = [r \in Reqs |-> <<>>]
    /\ resp = [r \in Reqs |-> <<>>]
    /\ steps = [r \in Reqs |-> <<>>]
    /\ prompt = [r \in Reqs |-> <<>>]
    /\ genReturned = [r \in Reqs |-> <<>>]
    /\ extractLog = <<>>
    /\ frame = <<>>

\* A POST /upload request arrives: the framework calls upload_pdf(file).
Receive(r) ==
    /\ pc[r] = "idle"
    /\ \E u \in Uploads : upload' = [upload EXCEPT ![r] = <<u>>]
    /\ Goto(r, "validate_type")
    /\ UNCHANGED <<client, file_content, pdf_text, explanation, resp, steps,
                   prompt, genReturned, extractLog, frame>>

ValidateType(r) ==
    /\ pc[r] = "validate_type"
    /\ Ran(r, "validate_type")
    /\ IF ~IsPdfType(upload[r][1].content_type)
       THEN Finish(r, HttpError(400, "Invalid file type"))
       ELSE Goto(r, "validate_size") /\ UNCHANGED resp
    /\ UNCHANGED <<client, upload, file_content, pdf_text, explanation,
                   prompt, genReturned, extractLog, frame>>

ValidateSize(r) ==
    /\ pc[r] = "validate_size"
    /\ Ran(r, "validate_size")
    /\ file_content' = [file_content EXCEPT ![r] = <<upload[r][1].body>>]
    /\ IF TooLarge(upload[r][1].body.size)
       THEN Finish(r, HttpError(400, "File too large"))
       ELSE Goto(r, "extract") /\ UNCHANGED resp
    /\ UNCHANGED <<client, upload, pdf_text, explanation, prompt,
                   genReturned, extractLog, frame>>

Extract(r) ==
    /\ pc[r] = "extract"
    /\ Ran(r, "extract")
    /\ LET got == extract_text_from_pdf(file_content[r][1])
       IN IF got.raised
          THEN /\ Finish(r, HttpError(got.status, got.detail))
               /\ UNCHANGED pdf_text
          ELSE /\ pdf_text' = [pdf_text EXCEPT ![r] = got.value]
               /\ Goto(r, "check")
               /\ UNCHANGED resp
    /\ UNCHANGED <<client, upload, file_content, explanation, prompt,
                   genReturned, extractLog, frame>>

Check(r) ==
    /\ pc[r] = "check"
    /\ Ran(r, "check")
    /\ IF Insufficient(pdf_text[r][1])
       THEN Finish(r, InsufficientResponse)
       ELSE Goto(r, "generate") /\ UNCHANGED resp
    /\ UNCHANGED <<client, upload, file_content, pdf_text, explanation,
                   prompt, genReturned, extractLog, frame>>

\* The generator with a retry: a failed call is made again.
GenerateRetry(r) ==
    /\ pc[r] = "generate"
    /\ Len(steps[r]) < Len(StepOrder) + 1
    /\ Ran(r, "generate")
    /\ prompt' = [prompt EXCEPT ![r] = <<user_prompt(pdf_text[r][1])>>]
    /\ \E response \in ClientOutcomes :
          /\ genReturned' = [genReturned EXCEPT ![r] = <<response>>]
          /\ LET got == GenerateOutcome(response)
             IN IF got.raised
                THEN UNCHANGED <<pc, resp, explanation>>
                ELSE /\ explanation' = [explanation EXCEPT ![r] = got.value]
                     /\ Goto(r, "respond")
                     /\ UNCHANGED resp
    /\ UNCHANGED <<client, upload, file_content, pdf_text, extractLog, frame>>

\* The generator with its result kept in a module-level variable that every
\* request in flight reads, instead of in the handler's local.
GenerateGlobal(r) ==
    /\ pc[r] = "generate"
    /\ Ran(r, "generate")
    /\ prompt' = [prompt EXCEPT ![r] = <<user_prompt(pdf_text[r][1])>>]
    /\ \E response \in ClientOutcomes :
          /\ genReturned' = [genReturned EXCEPT ![r] = <<response>>]
          /\ LET got == GenerateOutcome(response)
             IN IF got.raised
                THEN /\ Finish(r, HttpError(got.status, got.detail))
                     /\ UNCHANGED explanation
                ELSE /\ explanation' = [q \in Reqs |-> got.value]
                     /\ Goto(r, "respond")
                     /\ UNCHANGED resp
    /\ UNCHANGED <<client, upload, file_content, pdf_text, extractLog, frame>>

\* explanation = generate_meme_explanation(pdf_text)
Generate(r) ==
    /\ pc[r] = "generate"
    /\ Ran(r, "generate")
    /\ prompt' = [prompt EXCEPT ![r] = <<user_prompt(pdf_text[r][1])>>]
    /\ \E response \in ClientOutcomes :
          /\ genReturned' = [genReturned EXCEPT ![r] = <<response>>]
          /\ LET got == GenerateOutcome(response)
             IN IF got.raised
                THEN /\ Finish(r, HttpError(got.status, got.detail))
                     /\ UNCHANGED explanation
                ELSE /\ explanation' = [explanation EXCEPT ![r] = got.value]
                     /\ Goto(r, "respond")
                     /\ UNCHANGED resp
    /\ UNCHANGED <<client, upload, file_content, pdf_text, extractLog, frame>>

Respond(r) ==
    /\ pc[r] = "respond"
    /\ Ran(r, "respond")
    /\ Finish(r, SuccessResponse(explanation[r][1], pdf_text[r][1],
                                 upload[r][1].filename))
    /\ UNCHANGED <<client, upload, file_content, pdf_text, explanation,
                   prompt, genReturned, extractLog, frame>>

Next ==
    \E r \in Reqs :
        \/ Receive(r)
        \/ ValidateType(r)
        \/ ValidateSize(r)
        \/ Extract(r)
        \/ Check(r)
        \/ Generate(r)
        \/ Respond(r)

Spec == Init /\ [][Next]_vars

-----------------------------------------------------------------------------------------------------------------------------------------------------
(* The extractor called directly, several times in a row, on any documents. *)
(* One call is followed through its locals: pdf_reader is opened and        *)
(* text_content set to "", then one loop iteration per page, then return.   *)

Logged(b, result) ==
    extractLog' = Append(extractLog, [bytes |-> b, result |-> result])

ReqVars == <<client, pc, upload, file_content, pdf_text, explanation, resp,
             steps, prompt, genReturned>>

\* The call with text_content kept at module level instead of being a local
\* set to "" on every call: it still holds what the previous call returned.
ExtractorCallKeepsText ==
    /\ frame = <<>>
    /\ Len(extractLog) < MaxCalls
    /\ \E b \in Documents :
          IF ~b.valid
          THEN Logged(b, ExtractFault(<<>>)) /\ UNCHANGED frame
          ELSE /\ frame' = <<[pdf_file |-> b, page_num |-> 1,
                              text_content |->
                                  IF extractLog = <<>> THEN <<>>
                                  ELSE LET last == extractLog[Len(extractLog)].result
                                       IN IF last.raised THEN <<>>
                                          ELSE last.value[1]]>>
               /\ UNCHANGED extractLog
    /\ UNCHANGED ReqVars

\* pdf_reader = PyPDF2.PdfReader(pdf_stream); text_content = ""
ExtractorCall ==
    /\ frame = <<>>
    /\ Len(extractLog) < MaxCalls
    /\ \E b \in Documents :
          IF ~b.valid
          THEN Logged(b, ExtractFault(<<>>)) /\ UNCHANGED frame
          ELSE /\ frame' = <<[pdf_file |-> b, page_num |-> 1,
                              text_content |-> <<>>]>>
               /\ UNCHANGED extractLog
    /\ UNCHANGED ReqVars

\* one iteration of the page loop
ExtractorPage ==
    /\ frame # <<>>
    /\ LET f == frame[1]
           page == f.pdf_file.pages[f.page_num]
       IN /\ f.page_num <= Len(f.pdf_file.pages)
          /\ IF ~page.ok
             THEN /\ Logged(f.pdf_file, ExtractFault(f.text_content))
                  /\ frame' = <<>>
             ELSE /\ frame' = <<[f EXCEPT !.page_num = @ + 1,
                                          !.text_content = AddPage(@, page)]>>
                  /\ UNCHANGED extractLog
    /\ UNCHANGED ReqVars

\* return text_content.strip()
ExtractorReturn ==
    /\ frame # <<>>
    /\ LET f == frame[1]
       IN /\ f.page_num > Len(f.pdf_file.pages)
          /\ Logged(f.pdf_file, Return(TStrip(f.text_content)))
          /\ frame' = <<>>
    /\ UNCHANGED ReqVars

NextExtractor == ExtractorCall \/ ExtractorPage \/ ExtractorReturn

SpecExtractor == Init /\ [][NextExtractor]_vars

\* The stepwise call and the operator the handler uses are the same function.
ExtractorAgrees ==
    \A i \in DOMAIN extractLog :
        extractLog[i].result = extract_text_from_pdf(extractLog[i].bytes)

-----------------------------------------------------------------------------
(* Properties *)

Up(r) == upload[r][1]
Arrived(r) == upload[r] # <<>>
HasRun(r, step) == \E i \in DOMAIN steps[r] : steps[r][i] = step
Count(r, step) == Cardinality({i \in DOMAIN steps[r] : steps[r][i] = step})
Responded(r) == resp[r] # <<>>
Status(r) == resp[r][1].status
IsErrorWith(r, s) ==
    Responded(r) /\ resp[r][1].kind = "error" /\ resp[r][1].status = s
IsSuccess(r) ==
    Responded(r) /\ resp[r][1].kind = "json" /\ resp[r][1].success
IsInsufficient(r) ==
    Responded(r) /\ resp[r][1].kind = "json" /\ ~resp[r][1].success
Min(a, b) == IF a <= b THEN a ELSE b

\* p is an initial segment of the string t
RECURSIVE TPrefix(_, _)
TPrefix(p, t) ==
    IF p = <<>> THEN TRUE
    ELSE IF t = <<>> \/ Head(p).ch # Head(t).ch THEN FALSE
    ELSE IF Len(p) = 1 THEN Head(p).n <= Head(t).n
    ELSE Head(p).n = Head(t).n /\ TPrefix(Tail(p), Tail(t))

\* the bytes are ones on which extraction fails: the document cannot be
\* opened, or text extraction of some page faults
ExtractionFails(doc) ==
    ~doc.valid \/ \E i \in DOMAIN doc.pages : ~doc.pages[i].ok

\* C1: a request whose content-type is not exactly "application/pdf" ends
\* with HTTP 400 once its type has been validated, and for it the body is
\* never read, the extractor never invoked and the generator never called.
C1_NonPdfRejected ==
    \A r \in Reqs :
        (HasRun(r, "validate_type") /\ Up(r).content_type # "application/pdf")
        => /\ IsErrorWith(r, 400)
           /\ pc[r] = "done"
           /\ steps[r] = <<"validate_type">>
           /\ file_content[r] = <<>>
           /\ pdf_text[r] = <<>>
           /\ prompt[r] = <<>>
           /\ genReturned[r] = <<>>

C1_Witness ==
    \E r \in Reqs :
        /\ Arrived(r) /\ Up(r).content_type = "application/PDF"
        /\ Up(r).body = Doc50
        /\ IsErrorWith(r, 400)

\* C2: a PDF-typed request whose body is longer than 10 MiB ends with HTTP
\* 400 once its size has been validated and never reaches the generator; a
\* body of exactly 10 MiB passes the size check and goes on to extraction.
C2_OversizeRejected ==
    \A r \in Reqs :
        (HasRun(r, "validate_size") /\ Up(r).content_type = "application/pdf")
        => /\ Up(r).body.size > 10 * 1024 * 1024
              => /\ IsErrorWith(r, 400)
                 /\ pc[r] = "done"
                 /\ ~HasRun(r, "generate")
                 /\ prompt[r] = <<>>
                 /\ genReturned[r] = <<>>
           /\ Up(r).body.size = 10 * 1024 * 1024
              => /\ HasRun(r, "extract") \/ pc[r] = "extract"
                 /\ ~(Responded(r) /\ resp[r][1].kind = "error"
                            /\ resp[r][1].detail = "File too large")

C2_Witness ==
    \E r, q \in Reqs :
        /\ Arrived(r) /\ Up(r).body.size = 10 * 1024 * 1024 + 1
        /\ HasRun(r, "validate_size") /\ IsErrorWith(r, 400)
        /\ Arrived(q) /\ Up(q).body.size = 10 * 1024 * 1024
        /\ HasRun(q, "extract")

\* C3: when extraction fails on a request's bytes, a request that reached
\* the extract step ends with HTTP 400 (never 500 or 200), no text of the
\* pages before the fault is kept or forwarded, and the generator is not
\* called.
C3_ExtractionAtomic ==
    \A r \in Reqs :
        (HasRun(r, "extract") /\ ExtractionFails(Up(r).body))
        => /\ IsErrorWith(r, 400)
           /\ pc[r] = "done"
           /\ pdf_text[r] = <<>>
           /\ prompt[r] = <<>>
           /\ genReturned[r] = <<>>
           /\ ~HasRun(r, "check") /\ ~HasRun(r, "generate")

C3_Witness ==
    \E r, q \in Reqs :
        /\ Arrived(r) /\ Up(r).body = DocFaultPage2
        /\ HasRun(r, "extract") /\ IsErrorWith(r, 400)
        /\ Arrived(q) /\ Up(q).body = DocNotPdf
        /\ HasRun(q, "extract") /\ IsErrorWith(q, 400)

\* C4: when the sufficiency check has run on extracted text shorter than 50
\* characters, the response is HTTP 200 with success=false and a message
\* and the generator has not been called; text of exactly 50 characters
\* passes the check.
C4_InsufficientText ==
    \A r \in Reqs :
        (HasRun(r, "check") /\ pdf_text[r] # <<>>)
        => /\ TLen(TStrip(pdf_text[r][1])) < 50
              => /\ IsInsufficient(r)
                 /\ Status(r) = 200
                 /\ resp[r][1].message # ""
                 /\ pc[r] = "done"
                 /\ Count(r, "generate") = 0
                 /\ prompt[r] = <<>>
                 /\ genReturned[r] = <<>>
           /\ TLen(TStrip(pdf_text[r][1])) = 50
              => /\ ~IsInsufficient(r)
                 /\ HasRun(r, "generate") \/ pc[r] = "generate"

C4_Witness ==
    \E r, q \in Reqs :
        /\ Arrived(r) /\ Up(r).body = Doc49
        /\ pdf_text[r] # <<>> /\ TLen(pdf_text[r][1]) = 49
        /\ IsInsufficient(r)
        /\ Arrived(q) /\ Up(q).body = Doc50
        /\ pdf_text[q] # <<>> /\ TLen(pdf_text[q][1]) = 50
        /\ HasRun(q, "generate")

\* C5: a finished request with PDF content-type, size at most 10 MiB,
\* extracted text of at least 50 characters and a generator that returned
\* a non-empty string answers HTTP 200 with success=true, original_length
\* the length of the whole trimmed text (12001 for the 12001-character
\* document, not 12000), the generator's output and the uploaded filename.
C5_SuccessResponse ==
    \A r \in Reqs :
        ( /\ pc[r] = "done"
          /\ Up(r).content_type = "application/pdf"
          /\ Up(r).body.size <= 10 * 1024 * 1024
          /\ pdf_text[r] # <<>>
          /\ TLen(pdf_text[r][1]) >= 50
          /\ genReturned[r] # <<>>
          /\ genReturned[r][1].kind = "text"
          /\ genReturned[r][1].text # "" )
        => /\ IsSuccess(r)
           /\ Status(r) = 200
           /\ resp[r][1].original_length = TLen(pdf_text[r][1])
           /\ Up(r).body = Doc12001 => resp[r][1].original_length = 12001
           /\ Up(r).body = Doc50 => resp[r][1].original_length = 50
           /\ resp[r][1].explanation = genReturned[r][1].text
           /\ resp[r][1].filename = Up(r).filename

C5_Witness ==
    \E r \in Reqs :
        /\ Arrived(r) /\ Up(r).body = Doc12001
        /\ IsSuccess(r)
        /\ resp[r][1].original_length = 12001
        /\ resp[r][1].explanation = "ROFL"
        /\ resp[r][1].filename = "b.pdf"

\* C6: when the client call returned an empty string or no payload, or
\* threw, the request ends with HTTP 500; a success=true response never
\* carries an empty explanation.
C6_GenerationFailure ==
    \A r \in Reqs :
        /\ ( /\ genReturned[r] # <<>>
             /\ \/ genReturned[r][1].kind \in {"none", "throw"}
                \/ genReturned[r][1].text = "" )
           => IsErrorWith(r, 500) /\ pc[r] = "done"
        /\ IsSuccess(r) => resp[r][1].explanation # ""

C6_Witness ==
    \E r, q \in Reqs :
        /\ genReturned[r] = <<Payload("text", "")>> /\ IsErrorWith(r, 500)
        /\ genReturned[q] = <<Payload("throw", "")>> /\ IsErrorWith(q, 500)

\* C7: the text embedded in the prompt is the first min(length, 12000)
\* characters of the extracted text: text of at most 12000 characters is
\* embedded whole, longer text loses everything after character 12000, and
\* the request still ends in the usual success response.
C7_PromptTruncation ==
    \A r \in Reqs :
        prompt[r] # <<>>
        => LET text == pdf_text[r][1]
               sent == prompt[r][1].content
           IN /\ TLen(sent) = Min(TLen(text), 12000)
              /\ TPrefix(sent, text)
              /\ TLen(text) <= 12000 => sent = text
              /\ Up(r).body = Doc12001
                 => sent = <<Run("a", 11990), Run("\n", 1), Run("b", 9)>>
              /\ ( /\ TLen(text) > 12000
                   /\ pc[r] = "done"
                   /\ genReturned[r][1].kind = "text"
                   /\ genReturned[r][1].text # "" )
                 => IsSuccess(r) /\ resp[r][1].original_length = TLen(text)

C7_Witness ==
    \E r, q \in Reqs :
        /\ Arrived(r) /\ Up(r).body = Doc12001 /\ prompt[r] # <<>>
        /\ TLen(pdf_text[r][1]) = 12001
        /\ TLen(prompt[r][1].content) = 12000
        /\ IsSuccess(r)
        /\ Arrived(q) /\ Up(q).body = Doc12000 /\ prompt[q] # <<>>
        /\ prompt[q][1].content = pdf_text[q][1]

\* C8: any two direct calls of the extractor on identical bytes gave
\* identical results (the same text, or a failure both times), whatever
\* was extracted before or between them.
C8_ExtractorStateless ==
    \A i, j \in DOMAIN extractLog :
        extractLog[i].bytes = extractLog[j].bytes
        => extractLog[i].result = extractLog[j].result

C8_Witness ==
    /\ Len(extractLog) = 3
    /\ extractLog[1].bytes = Doc49
    /\ extractLog[2].bytes = Doc12001
    /\ extractLog[3].bytes = Doc49
    /\ ~extractLog[3].result.raised
    /\ TLen(extractLog[3].result.value[1]) = 49

\* the steps request r has run are an initial segment of the fixed order
InOrder(r) ==
    /\ Len(steps[r]) <= Len(StepOrder)
    /\ \A i \in DOMAIN steps[r] : steps[r][i] = StepOrder[i]

\* C9: the steps of a request are always an initial segment of validate
\* type, validate size, extract, check, generate, respond (so none is run
\* twice); the generator is called only with extracted text that passed
\* the sufficiency check; and once a request has a response or error, no
\* further step of it runs and the response does not change.
C9_LinearPipeline ==
    /\ [](\A r \in Reqs :
            /\ InOrder(r)
            /\ Count(r, "extract") <= 1 /\ Count(r, "generate") <= 1
            /\ HasRun(r, "generate")
               => /\ HasRun(r, "extract") /\ HasRun(r, "check")
                  /\ pdf_text[r] # <<>>
                  /\ TLen(pdf_text[r][1]) >= 50
            /\ pc[r] = "done" <=> Responded(r))
    /\ [][\A r \in Reqs :
            Responded(r)
            => /\ steps'[r] = steps[r]
               /\ resp'[r] = resp[r]
               /\ pc'[r] = pc[r]]_vars

C9_Witness ==
    \E r, q \in Reqs :
        /\ steps[r] = StepOrder /\ IsSuccess(r)
        /\ steps[q] = SubSeq(StepOrder, 1, 5) /\ IsErrorWith(q, 500)

\* everything request r owns
Own(r) == <<pc[r], upload[r], file_content[r], pdf_text[r], explanation[r],
            resp[r], steps[r], prompt[r], genReturned[r]>>

\* the response the pipeline gives to upload u when its own client call
\* (if it makes one) gives back g
OwnResponse(u, g) ==
    LET got == extract_text_from_pdf(u.body)
    IN IF u.content_type # "application/pdf"
       THEN HttpError(400, "Invalid file type")
       ELSE IF u.body.size > 10 * 1024 * 1024
       THEN HttpError(400, "File too large")
       ELSE IF got.raised
       THEN HttpError(400, "Error extracting text from PDF")
       ELSE IF TLen(got.value[1]) < 50
       THEN InsufficientResponse
       ELSE IF g[1].kind = "text" /\ g[1].text # ""
       THEN [kind |-> "json", status |-> 200, success |-> TRUE,
             explanation |-> g[1].text,
             original_length |-> TLen(got.value[1]),
             filename |-> u.filename]
       ELSE HttpError(500, "Error generating explanation")

\* C10: under every interleaving of the requests' steps, a request's
\* response is the one its own content-type, body, filename and own client
\* result determine; a step of one request changes nothing another request
\* owns; and the shared client handle is never written.
C10_RequestIsolation ==
    /\ [](\A r \in Reqs :
            Responded(r) => resp[r][1] = OwnResponse(Up(r), genReturned[r]))
    /\ [][/\ client' = client
          /\ \A r \in Reqs : pc'[r] = pc[r] => Own(r)' = Own(r)]_vars

C10_Witness ==
    \E r, q \in Reqs :
        /\ IsSuccess(r) /\ IsSuccess(q)
        /\ Up(r).body = Doc50 /\ Up(q).body = Doc12001
        /\ resp[r][1].filename = "a.pdf" /\ resp[q][1].filename = "b.pdf"
        /\ resp[r][1].explanation = "LOL" /\ resp[q][1].explanation = "ROFL"
        /\ resp[r][1].original_length = 50
        /\ resp[q][1].original_length = 12001

====
